---- MODULE Spec2Model ----
(***************************************************************************)
(* A model of readless/Segmentation/texttiling.py: the TextTiling          *)
(* tokenizer (tokenize_string) and block scorer (block_score).             *)
(*                                                                         *)
(* A text is a sequence of one-character strings; a token is a string.     *)
(* A Counter, and a Python list whose order is the iteration order of a    *)
(* Counter (a hash order that no reader of the list depends on), is a bag. *)
(* A block score is kept as the exact integers it is computed from:        *)
(* numerator, before_sum, after_sum and the square of the denominator.     *)
(***************************************************************************)
EXTENDS Integers, Sequences, FiniteSets, Bags, TLC

VARIABLES
    pc,               \* position in the function being executed
    err,              \* the exception raised, "none" while there is none
    \* tokenize_string
    input_string, w, paragraphs, p, tokens, paragraph_breaks, token_count,
    token_sequences, index, count, i,
    \* shared name: result of tokenize_string, argument of block_score
    unique_tokens,
    \* block_score
    k, token_sequence, score_block, before_count, after_count, gap_index

tokvars == <<input_string, w, paragraphs, p, tokens, paragraph_breaks,
             token_count, token_sequences, index, count, i>>
scorevars == <<k, token_sequence, score_block, before_count, after_count,
               gap_index>>
vars == <<pc, err, tokvars, unique_tokens, scorevars>>

----------------------------------------------------------------------------
(* Bounds of the model *)

MaxLen == 5        \* longest input text, in characters
MaxW == 2          \* largest pseudo-sentence size
MaxGroups == 4     \* longest token-sequence list given to block_score
MaxK == 2          \* largest block size

----------------------------------------------------------------------------
(* Characters *)

\* the part of [a-z] the texts are drawn from
LowerLetters == {"b", "s"}
UpperLetters == {"B"}
Joiners == {"-", "'"}
Whitespace == {" ", "\n"}
Chars == LowerLetters \cup UpperLetters \cup {"-", " ", "\n"}

\* [a-z] of the pattern
IsLower(c) == c \in LowerLetters

\* str.lower() on one character
LowerChar(c) == IF c = "B" THEN "b" ELSE c

\* str.lower()
Lower(s) == [n \in 1..Len(s) |-> LowerChar(s[n])]

\* the characters of a match, as one string
RECURSIVE Join(_)
Join(cs) == IF cs = <<>> THEN "" ELSE Head(cs) \o Join(Tail(cs))

----------------------------------------------------------------------------
(* The services imported from nltk *)

\* stopwords.words('english'), restricted to the words over LowerLetters:
\* the list has "s" (and no other word made of b and s)
stop_words == {"s"}

\* WordNetLemmatizer.lemmatize on the words over LowerLetters: a final "s" is
\* dropped when what is left is a WordNet entry; every other word is returned
\* unchanged.  "bss" -> "bs" -> "b" shows that lemmatizing is not idempotent,
\* "ss" -> "s" that a lemma may be a stop word.
lemmatize(word) ==
    CASE word = "bs"  -> "b"
      [] word = "bbs" -> "bb"
      [] word = "bss" -> "bs"
      [] word = "sbs" -> "sb"
      [] word = "ss"  -> "s"
      [] word = "sss" -> "ss"
      [] OTHER -> word

----------------------------------------------------------------------------
(* Helpers of tokenize_string *)

\* 1-based position of the first "\n" of s, 0 if there is none
RECURSIVE FirstNewline(_, _)
FirstNewline(s, n) ==
    IF n > Len(s) THEN 0
    ELSE IF s[n] = "\n" THEN n
    ELSE FirstNewline(s, n + 1)

\* str.splitlines()
RECURSIVE splitlines(_)
splitlines(s) ==
    IF s = <<>> THEN <<>>
    ELSE LET n == FirstNewline(s, 1) IN
         IF n = 0 THEN <<s>>
         ELSE <<SubSeq(s, 1, n - 1)>> \o splitlines(SubSeq(s, n + 1, Len(s)))

\* str.strip()
RECURSIVE strip(_)
strip(s) ==
    IF s = <<>> THEN s
    ELSE IF Head(s) \in Whitespace THEN strip(Tail(s))
    ELSE IF s[Len(s)] \in Whitespace THEN strip(SubSeq(s, 1, Len(s) - 1))
    ELSE s

\* the non-empty elements of a sequence of strings, in order
RECURSIVE NonEmpty(_)
NonEmpty(ss) ==
    IF ss = <<>> THEN <<>>
    ELSE IF Head(ss) # <<>> THEN <<Head(ss)>> \o NonEmpty(Tail(ss))
    ELSE NonEmpty(Tail(ss))

\* lines 66-67: the stripped, non-empty lines of the text
SplitParagraphsOf(s) ==
    LET lines == splitlines(s)
    IN  NonEmpty([n \in 1..Len(lines) |-> strip(lines[n])])

\* last position of the run [a-z]+ that starts at position n
RECURSIVE RunEnd(_, _)
RunEnd(s, n) ==
    IF n + 1 <= Len(s) /\ IsLower(s[n + 1]) THEN RunEnd(s, n + 1) ELSE n

\* last position of the match of [a-z]+(?:[-'][a-z]+)* that starts at n
RECURSIVE MatchEnd(_, _)
MatchEnd(s, n) ==
    LET e == RunEnd(s, n) IN
    IF e + 2 <= Len(s) /\ s[e + 1] \in Joiners /\ IsLower(s[e + 2])
    THEN MatchEnd(s, e + 2)
    ELSE e

\* re.findall(pattern, paragraph), scanning from position n
RECURSIVE findall(_, _)
findall(s, n) ==
    IF n > Len(s) THEN <<>>
    ELSE IF ~IsLower(s[n]) THEN findall(s, n + 1)
    ELSE LET e == MatchEnd(s, n)
         IN  <<Join(SubSeq(s, n, e))>> \o findall(s, e + 1)

\* lines 73-76: the body of the loop over the paragraphs
CountParagraphBody(st, paragraph) ==
    LET paragraph_tokens == findall(paragraph, 1)
        tc == st.token_count + Len(paragraph_tokens)
    IN  [tokens |-> st.tokens \o paragraph_tokens,
         token_count |-> tc,
         paragraph_breaks |-> Append(st.paragraph_breaks, tc)]

\* DropLast without the slice of line 78: the last break is kept
DropLast_Keep(s) == s

\* line 78: paragraph_breaks[:-1]
DropLast(s) == IF s = <<>> THEN s ELSE SubSeq(s, 1, Len(s) - 1)

\* Python's a % b for b # 0: the result has the sign of b
PyMod(a, b) == IF b > 0 THEN a % b ELSE -((-a) % (-b))

\* GroupTokenBody without the reset of line 86: the counter keeps the tokens
\* of the groups closed before
GroupTokenBody_NoReset(st, token, ww) ==
    LET c == st.count (+) SetToBag({token})
        ix == st.index + 1
    IN  IF PyMod(ix, ww) = 0
        THEN [count |-> c, index |-> 0,
              token_sequences |-> Append(st.token_sequences, c)]
        ELSE [count |-> c, index |-> ix,
              token_sequences |-> st.token_sequences]

\* lines 82-87: the body of the loop over the tokens (w # 0)
GroupTokenBody(st, token, ww) ==
    LET c == st.count (+) SetToBag({token})
        ix == st.index + 1
    IN  IF PyMod(ix, ww) = 0
        THEN [count |-> EmptyBag, index |-> 0,
              token_sequences |-> Append(st.token_sequences, c)]
        ELSE [count |-> c, index |-> ix,
              token_sequences |-> st.token_sequences]

\* the sum of f[x] over the elements x of S
RECURSIVE SumOver(_, _)
SumOver(f, S) ==
    IF S = {} THEN 0
    ELSE LET x == CHOOSE y \in S : TRUE IN f[x] + SumOver(f, S \ {x})

\* [lemmatizer.lemmatize(word) for word in seq], as a bag
LemmatizeEach(seq) ==
    LET D == BagToSet(seq)
        L == {lemmatize(t) : t \in D}
    IN  [v \in L |-> SumOver(seq, {t \in D : lemmatize(t) = v})]

\* line 91: iterating a Counter yields each of its keys once
RemoveStopWords(counter) ==
    LemmatizeEach(SetToBag(BagToSet(counter) \ stop_words))

\* the set of the elements of a sequence
Range(s) == {s[n] : n \in 1..Len(s)}

\* line 98
UniqueTokensOf(toks) == Range(toks) \ stop_words

----------------------------------------------------------------------------
(* tokenize_string(input_string, w), lines 35-100 *)

Texts == UNION {[1..n -> Chars] : n \in 0..MaxLen}

InitTokenize ==
    /\ pc = "split"
    /\ err = "none"
    /\ input_string \in Texts
    /\ w \in -1..MaxW
    /\ paragraphs = <<>>
    /\ p = 1
    /\ tokens = <<>>
    /\ paragraph_breaks = <<>>
    /\ token_count = 0
    /\ token_sequences = <<>>
    /\ index = 0
    /\ count = EmptyBag
    /\ i = 1
    /\ unique_tokens = {}
    /\ k = 1
    /\ token_sequence = <<>>
    /\ score_block = <<>>
    /\ before_count = EmptyBag
    /\ after_count = EmptyBag
    /\ gap_index = 1

\* lines 66-67
SplitParagraphs ==
    /\ pc = "split"
    /\ paragraphs' = SplitParagraphsOf(input_string)
    /\ pc' = "count"
    /\ UNCHANGED <<err, input_string, w, p, tokens, paragraph_breaks,
                   token_count, token_sequences, index, count, i,
                   unique_tokens, scorevars>>

\* lines 72-76: one iteration
CountParagraph ==
    /\ pc = "count"
    /\ p <= Len(paragraphs)
    /\ LET st == CountParagraphBody(
                    [tokens |-> tokens, token_count |-> token_count,
                     paragraph_breaks |-> paragraph_breaks], paragraphs[p])
       IN  /\ tokens' = st.tokens
           /\ token_count' = st.token_count
           /\ paragraph_breaks' = st.paragraph_breaks
    /\ p' = p + 1
    /\ UNCHANGED <<pc, err, input_string, w, paragraphs, token_sequences,
                   index, count, i, unique_tokens, scorevars>>

\* line 78
DropLastBreak ==
    /\ pc = "count"
    /\ p > Len(paragraphs)
    /\ paragraph_breaks' = DropLast(paragraph_breaks)
    /\ pc' = "group"
    /\ UNCHANGED <<err, input_string, w, paragraphs, p, tokens, token_count,
                   token_sequences, index, count, i, unique_tokens, scorevars>>

\* lines 81-87: one iteration, w # 0
GroupToken ==
    /\ pc = "group"
    /\ i <= Len(tokens)
    /\ w # 0
    /\ LET st == GroupTokenBody(
                    [count |-> count, index |-> index,
                     token_sequences |-> token_sequences], tokens[i], w)
       IN  /\ count' = st.count
           /\ index' = st.index
           /\ token_sequences' = st.token_sequences
    /\ i' = i + 1
    /\ UNCHANGED <<pc, err, input_string, w, paragraphs, p, tokens,
                   paragraph_breaks, token_count, unique_tokens, scorevars>>

\* lines 82-84 with w = 0: index % w raises ZeroDivisionError
GroupTokenZeroDivision ==
    /\ pc = "group"
    /\ i <= Len(tokens)
    /\ w = 0
    /\ count' = count (+) SetToBag({tokens[i]})
    /\ index' = index + 1
    /\ err' = "ZeroDivisionError"
    /\ pc' = "error"
    /\ UNCHANGED <<input_string, w, paragraphs, p, tokens, paragraph_breaks,
                   token_count, token_sequences, i, unique_tokens, scorevars>>

\* lines 90-91
RemoveStopWordsLoop ==
    /\ pc = "group"
    /\ i > Len(tokens)
    /\ token_sequences' = [n \in 1..Len(token_sequences) |->
                              RemoveStopWords(token_sequences[n])]
    /\ pc' = "lemmatize"
    /\ UNCHANGED <<err, input_string, w, paragraphs, p, tokens,
                   paragraph_breaks, token_count, index, count, i,
                   unique_tokens, scorevars>>

\* lines 94-95
LemmatizeLoop ==
    /\ pc = "lemmatize"
    /\ token_sequences' = [n \in 1..Len(token_sequences) |->
                              LemmatizeEach(token_sequences[n])]
    /\ pc' = "unique"
    /\ UNCHANGED <<err, input_string, w, paragraphs, p, tokens,
                   paragraph_breaks, token_count, index, count, i,
                   unique_tokens, scorevars>>

\* lines 98-100
ReturnTokens ==
    /\ pc = "unique"
    /\ unique_tokens' = UniqueTokensOf(tokens)
    /\ pc' = "done"
    /\ UNCHANGED <<err, tokvars, scorevars>>

NextTokenize ==
    \/ SplitParagraphs
    \/ CountParagraph
    \/ DropLastBreak
    \/ GroupToken
    \/ GroupTokenZeroDivision
    \/ RemoveStopWordsLoop
    \/ LemmatizeLoop
    \/ ReturnTokens

SpecTokenize == InitTokenize /\ [][NextTokenize]_vars

----------------------------------------------------------------------------
(* Helpers of block_score *)

Min(a, b) == IF a <= b THEN a ELSE b

\* line 120
CurrentK(gap, kk, seq) == Min(gap, Min(kk, Len(seq) - gap))

\* line 121: token_sequence[gap_index - current_k : gap_index]
before_block(gap, kk, seq) ==
    SubSeq(seq, gap - CurrentK(gap, kk, seq) + 1, gap)

\* line 122: token_sequence[gap_index : gap_index + current_k]
after_block(gap, kk, seq) ==
    SubSeq(seq, gap + 1, gap + CurrentK(gap, kk, seq))

\* Counter(list): how block_score reads a token sequence
Counter(list) == list

\* lines 124-126, one of the two counters: cnt + Counter(seq[from + j]) for
\* j = 0 .. n-1 (from is a 0-based Python index)
RECURSIVE Accumulate(_, _, _, _)
Accumulate(cnt, seq, from, n) ==
    IF n <= 0 THEN cnt
    ELSE Accumulate(cnt (+) Counter(seq[from + 1]), seq, from + 1, n - 1)

\* DenominatorSq without the test of lines 140-141
DenominatorSq_NoGuard(before_sum, after_sum) == before_sum * after_sum

\* lines 138-141, squared: sqrt(x) is 0 exactly when x is 0
DenominatorSq(before_sum, after_sum) ==
    IF before_sum * after_sum = 0 THEN 1 ELSE before_sum * after_sum

\* lines 129-143
ScoreOf(bc, ac, vocab) ==
    LET numerator == SumOver([t \in vocab |-> CopiesIn(t, bc) * CopiesIn(t, ac)], vocab)
        before_sum == SumOver([t \in vocab |-> CopiesIn(t, bc) * CopiesIn(t, bc)], vocab)
        after_sum == SumOver([t \in vocab |-> CopiesIn(t, ac) * CopiesIn(t, ac)], vocab)
    IN  [numerator |-> numerator, before_sum |-> before_sum,
         after_sum |-> after_sum,
         denominator_sq |-> DenominatorSq(before_sum, after_sum)]

\* lines 120-143: the body of the loop over the gaps
ScoreGapBody(st, kk, seq, vocab, gap) ==
    LET current_k == CurrentK(gap, kk, seq)
        bc == Accumulate(st.before_count, seq, gap - current_k, current_k)
        ac == Accumulate(st.after_count, seq, gap, current_k)
    IN  [before_count |-> bc, after_count |-> ac,
         score_block |-> Append(st.score_block, ScoreOf(bc, ac, vocab))]

\* HasNextGap with the range one gap short: range(1, len(token_sequence) - 1)
HasNextGap_Short(gap, seq) == gap < Len(seq) - 1

\* line 119: range(1, len(token_sequence)) has a next element
HasNextGap(gap, seq) == gap < Len(seq)

----------------------------------------------------------------------------
(* block_score(k, token_sequence, unique_tokens), lines 102-145 *)

ScoreWords == {"cat", "mat", "dog"}

\* the token sequences the groups are drawn from, each a list read as a bag
GroupChoices ==
    {EmptyBag, SetToBag({"cat"}), SetToBag({"mat"}), SetToBag({"dog"}),
     SetToBag({"cat", "mat"}), SetToBag({"cat"}) (+) SetToBag({"cat"})}

InitScore ==
    /\ pc = "score"
    /\ err = "none"
    /\ k \in -1..MaxK
    /\ token_sequence \in UNION {[1..n -> GroupChoices] : n \in 0..MaxGroups}
    /\ unique_tokens \in SUBSET ScoreWords
    /\ score_block = <<>>
    /\ before_count = EmptyBag
    /\ after_count = EmptyBag
    /\ gap_index = 1
    /\ input_string = <<>>
    /\ w = 1
    /\ paragraphs = <<>>
    /\ p = 1
    /\ tokens = <<>>
    /\ paragraph_breaks = <<>>
    /\ token_count = 0
    /\ token_sequences = <<>>
    /\ index = 0
    /\ count = EmptyBag
    /\ i = 1

\* lines 119-143: one iteration
ScoreGap ==
    /\ pc = "score"
    /\ HasNextGap(gap_index, token_sequence)
    /\ LET st == ScoreGapBody(
                    [before_count |-> before_count, after_count |-> after_count,
                     score_block |-> score_block],
                    k, token_sequence, unique_tokens, gap_index)
       IN  /\ before_count' = st.before_count
           /\ after_count' = st.after_count
           /\ score_block' = st.score_block
    /\ gap_index' = gap_index + 1
    /\ UNCHANGED <<pc, err, tokvars, unique_tokens, k, token_sequence>>

\* line 145
ReturnScores ==
    /\ pc = "score"
    /\ ~HasNextGap(gap_index, token_sequence)
    /\ pc' = "done"
    /\ UNCHANGED <<err, tokvars, unique_tokens, scorevars>>

NextScore ==
    \/ ScoreGap
    \/ ReturnScores

SpecScore == InitScore /\ [][NextScore]_vars

----------------------------------------------------------------------------
(* The two functions as operators: the loops above, run to their end *)

RECURSIVE CountParagraphs(_, _, _)
CountParagraphs(st, paras, n) ==
    IF n > Len(paras) THEN st
    ELSE CountParagraphs(CountParagraphBody(st, paras[n]), paras, n + 1)

RECURSIVE GroupTokens(_, _, _, _)
GroupTokens(st, toks, ww, n) ==
    IF n > Len(toks) THEN st
    ELSE GroupTokens(GroupTokenBody(st, toks[n], ww), toks, ww, n + 1)

\* tokenize_string(text, ww) for ww # 0
TokenizeStringOf(text, ww) ==
    LET counted == CountParagraphs(
                      [tokens |-> <<>>, token_count |-> 0,
                       paragraph_breaks |-> <<>>],
                      SplitParagraphsOf(text), 1)
        grouped == GroupTokens(
                      [count |-> EmptyBag, index |-> 0,
                       token_sequences |-> <<>>],
                      counted.tokens, ww, 1).token_sequences
    IN  [token_sequences |->
            [n \in 1..Len(grouped) |->
                LemmatizeEach(RemoveStopWords(grouped[n]))],
         unique_tokens |-> UniqueTokensOf(counted.tokens),
         paragraph_breaks |-> DropLast(counted.paragraph_breaks)]

RECURSIVE RunBlockScore(_, _, _, _, _)
RunBlockScore(st, kk, seq, vocab, gap) ==
    IF ~HasNextGap(gap, seq) THEN st.score_block
    ELSE RunBlockScore(ScoreGapBody(st, kk, seq, vocab, gap),
                       kk, seq, vocab, gap + 1)

\* block_score(kk, seq, vocab)
BlockScoreOf(kk, seq, vocab) ==
    RunBlockScore([before_count |-> EmptyBag, after_count |-> EmptyBag,
                   score_block |-> <<>>], kk, seq, vocab, 1)

----------------------------------------------------------------------------
(* Definitions the claims are stated with *)

\* the number of copies of word v in the token sequences of a window
RECURSIVE WindowCount(_, _)
WindowCount(window, v) ==
    IF window = <<>> THEN 0
    ELSE CopiesIn(v, Head(window)) + WindowCount(Tail(window), v)

\* the sum over the vocabulary of the products of two windows' counts
WindowDot(wa, wb, vocab) ==
    SumOver([v \in vocab |-> WindowCount(wa, v) * WindowCount(wb, v)], vocab)

\* the two windows of a gap have no vocabulary word in common
WindowsDisjoint(gap) ==
    \A v \in unique_tokens :
        \/ WindowCount(before_block(gap, k, token_sequence), v) = 0
        \/ WindowCount(after_block(gap, k, token_sequence), v) = 0

\* two scores are the same number: n1/sqrt(d1) = n2/sqrt(d2), all >= 0
SameScore(s, t) ==
    s.numerator * s.numerator * t.denominator_sq
        = t.numerator * t.numerator * s.denominator_sq

Reverse(seq) == [n \in 1..Len(seq) |-> seq[Len(seq) + 1 - n]]

\* the positions of the tokens of group j (1-based) in the token stream
Chunk(j) == ((j - 1) * w + 1)..(j * w)

\* the tokens of group j, counted
ChunkCounter(j) ==
    LET S == {tokens[n] : n \in Chunk(j)}
    IN  [t \in S |-> Cardinality({n \in Chunk(j) : tokens[n] = t})]

StrictlyIncreasing(s) == \A n \in 1..(Len(s) - 1) : s[n] < s[n + 1]
NonDecreasing(s) == \A n \in 1..(Len(s) - 1) : s[n] <= s[n + 1]
Max(a, b) == IF a >= b THEN a ELSE b

----------------------------------------------------------------------------
(* Claims about block_score, checked under SpecScore *)

\* C1: for k >= 1 the score emitted for gap i is computed only from the two
\* windows of the gap, groups[i-c .. i-1] and groups[i .. i+c-1] with
\* c = min(i, k, n-i): its numerator is the sum over the vocabulary of
\* before[v]*after[v] and its norm terms are the sums of before[v]^2 and of
\* after[v]^2, where before and after count the words of these windows alone.
C1_ScoreFromWindowsOnly ==
    k >= 1 =>
        \A g \in 1..Len(score_block) :
            LET bw == before_block(g, k, token_sequence)
                aw == after_block(g, k, token_sequence)
            IN  /\ score_block[g].numerator = WindowDot(bw, aw, unique_tokens)
                /\ score_block[g].before_sum = WindowDot(bw, bw, unique_tokens)
                /\ score_block[g].after_sum = WindowDot(aw, aw, unique_tokens)

\* C5: for k >= 1, when the before-window and the after-window of a gap share
\* no vocabulary word, the score of the gap is exactly 0.
C5_DisjointWindowsScoreZero ==
    k >= 1 =>
        \A g \in 1..Len(score_block) :
            WindowsDisjoint(g) => score_block[g].numerator = 0

\* C6: for k >= 1 the scores of the reversed group sequence are the scores of
\* the group sequence in reverse order.
C6_ReversalSymmetry ==
    (pc = "done" /\ k >= 1) =>
        LET n == Len(token_sequence)
            r == BlockScoreOf(k, Reverse(token_sequence), unique_tokens)
        IN  /\ Len(r) = Len(score_block)
            /\ \A j \in 1..Len(r) : SameScore(r[j], score_block[n - j])

\* C9: for k >= 1 every emitted score lies in [0, 1]: the numerator is >= 0
\* and its square is at most before_sum * after_sum; the denominator is never
\* zero, and where before_sum * after_sum is zero the denominator is 1 and the
\* score is 0.
C9_ScoreInUnitInterval ==
    k >= 1 =>
        \A g \in 1..Len(score_block) :
            LET s == score_block[g] IN
            /\ s.numerator >= 0
            /\ s.denominator_sq > 0
            /\ s.numerator * s.numerator <= s.denominator_sq
            /\ s.before_sum * s.after_sum # 0 =>
                   s.denominator_sq = s.before_sum * s.after_sum
            /\ s.before_sum * s.after_sum = 0 =>
                   (s.denominator_sq = 1 /\ s.numerator = 0)

\* a returned score list with a score strictly between 0 and 1, a score of 1,
\* and a score whose denominator was replaced by 1
C9_Witness ==
    /\ pc = "done"
    /\ k >= 1
    /\ \E g \in 1..Len(score_block) :
          /\ score_block[g].numerator > 0
          /\ score_block[g].numerator * score_block[g].numerator
                 < score_block[g].denominator_sq
    /\ \E g \in 1..Len(score_block) :
          /\ score_block[g].numerator > 1
          /\ score_block[g].numerator * score_block[g].numerator
                 = score_block[g].denominator_sq
    /\ \E g \in 1..Len(score_block) :
          score_block[g].before_sum * score_block[g].after_sum = 0

\* the indexes read by lines 125-126 for a gap are indexes of the list
WindowsInRange(gap) ==
    LET c == CurrentK(gap, k, token_sequence)
    IN  /\ 0 <= gap - c
        /\ gap + c <= Len(token_sequence)
        /\ Len(before_block(gap, k, token_sequence)) = c
        /\ Len(after_block(gap, k, token_sequence)) = c

\* the number of scores block_score returns for a list of n token sequences
ExpectedScores == Max(Len(token_sequence) - 1, 0)

\* C10: for k >= 1 block_score terminates and returns n-1 scores when n >= 2
\* and none when n < 2, one per gap in ascending gap order: while the loop
\* runs, the scores of gaps 1 .. gap_index-1 have been emitted, gap_index
\* never passes n, and the two windows of the next gap lie inside the list (no
\* index error ends the loop early); at the return the list has Max(n-1, 0)
\* scores.
C10_OneScorePerGap ==
    k >= 1 =>
        /\ err = "none"
        /\ pc \in {"score", "done"}
        /\ pc = "score" =>
               /\ Len(score_block) = gap_index - 1
               /\ gap_index <= Max(Len(token_sequence), 1)
               /\ HasNextGap(gap_index, token_sequence) =>
                      WindowsInRange(gap_index)
        /\ pc = "done" => Len(score_block) = ExpectedScores

\* a return of n-1 scores where the gaps at the two ends had fewer than k
\* token sequences on a side
C10_Witness ==
    /\ pc = "done"
    /\ k = 2
    /\ Len(token_sequence) >= 4
    /\ CurrentK(1, k, token_sequence) < k
    /\ Len(score_block) = Len(token_sequence) - 1

----------------------------------------------------------------------------
(* Claims about tokenize_string, checked under SpecTokenize *)

\* the words a group or its chunk of tokens can hold
GroupWords(j) ==
    BagToSet(token_sequences[j]) \cup {lemmatize(tokens[n]) : n \in Chunk(j)}

\* C2: for w > 0, the count of every word v in the j-th returned group, as
\* block_score reads it, is the number of tokens t of raw tokens
\* (j-1)*w+1 .. j*w that are not stop words and have lemma(t) = v.
C2_GroupIsMultisetOfChunk ==
    (pc = "done" /\ w > 0) =>
        \A j \in 1..Len(token_sequences) :
            \A v \in GroupWords(j) :
                CopiesIn(v, Counter(token_sequences[j])) =
                    Cardinality({n \in Chunk(j) :
                                    /\ tokens[n] \notin stop_words
                                    /\ lemmatize(tokens[n]) = v})

\* C3: a call with w <= 0 (tokenize_string) or k <= 0 (block_score) ends in
\* an InvalidArgument error and never returns; no token group and no score
\* is produced.
C3_InvalidArgument ==
    (w <= 0 \/ k <= 0) =>
        /\ pc # "done"
        /\ pc = "error" => err = "InvalidArgument"
        /\ token_sequences = <<>>
        /\ score_block = <<>>

\* C4 as claimed: paragraph_breaks has Max(0, non-empty paragraphs - 1)
\* values, strictly increasing, each strictly less than the number of raw
\* tokens.
C4_BreaksStrictlyIncreasing ==
    pc = "done" =>
        /\ Len(paragraph_breaks) = Max(0, Len(paragraphs) - 1)
        /\ StrictlyIncreasing(paragraph_breaks)
        /\ \A n \in 1..Len(paragraph_breaks) :
              paragraph_breaks[n] < Len(tokens)

\* every non-empty paragraph has at least one token
EveryParagraphHasToken ==
    \A n \in 1..Len(paragraphs) : findall(paragraphs[n], 1) # <<>>

\* C4 (amended): paragraph_breaks has Max(0, non-empty paragraphs - 1)
\* values, non-decreasing, each at most the number of raw tokens; when every
\* non-empty paragraph has at least one token the values are strictly
\* increasing and strictly less than the number of raw tokens.
C4_BreaksNonDecreasing ==
    pc = "done" =>
        /\ Len(paragraph_breaks) = Max(0, Len(paragraphs) - 1)
        /\ NonDecreasing(paragraph_breaks)
        /\ \A n \in 1..Len(paragraph_breaks) :
              paragraph_breaks[n] <= Len(tokens)
        /\ EveryParagraphHasToken =>
              /\ StrictlyIncreasing(paragraph_breaks)
              /\ \A n \in 1..Len(paragraph_breaks) :
                    paragraph_breaks[n] < Len(tokens)

\* a return with three paragraphs, the middle one without a token: the two
\* breaks are equal
C4_Witness ==
    /\ pc = "done"
    /\ Len(paragraphs) = 3
    /\ ~EveryParagraphHasToken
    /\ Len(paragraph_breaks) = 2
    /\ paragraph_breaks[1] > 0
    /\ paragraph_breaks[1] = paragraph_breaks[2]
    /\ paragraph_breaks[2] < Len(tokens)

\* C7: for w > 0, tokenize_string returns for a text what it returns for the
\* lowercased text.
C7_CaseFolded ==
    (pc = "done" /\ w > 0) =>
        [token_sequences |-> token_sequences,
         unique_tokens |-> unique_tokens,
         paragraph_breaks |-> paragraph_breaks]
            = TokenizeStringOf(Lower(input_string), w)

\* C8: for w > 0, tokenize_string raises no error and returns
\* floor(number of raw tokens / w) groups; group j is built from raw tokens
\* (j-1)*w+1 .. j*w (by lines 91 and 95) and from no other token, so the last
\* (number of raw tokens mod w) tokens are in no group.
C8_GroupsOfExactlyW ==
    w > 0 =>
        /\ err = "none"
        /\ pc # "error"
        /\ pc = "done" =>
              /\ Len(token_sequences) = Len(tokens) \div w
              /\ \A j \in 1..Len(token_sequences) :
                    token_sequences[j] =
                        LemmatizeEach(RemoveStopWords(ChunkCounter(j)))

\* a return of one group of two tokens from three tokens in two paragraphs:
\* the group spans the paragraph break and the third token is in no group
C8_Witness ==
    /\ pc = "done"
    /\ w = 2
    /\ Len(tokens) = 3
    /\ Len(token_sequences) = 1
    /\ paragraph_breaks = <<1>>
    /\ "b" \in unique_tokens
    /\ token_sequences[1] # EmptyBag

====
